---- MODULE Spec2Model ----
(***************************************************************************)
(* Model of examples/multiclass_comparision_svm_struct.py: the MultiSVM    *)
(* adapter around the svm_multiclass_learn / svm_multiclass_classify       *)
(* binaries and the eval_on_data sweep harness.                            *)
(*                                                                         *)
(* The Python thread is one sequential process whose position is pc.  The  *)
(* two external binaries are child processes whose behaviour is not        *)
(* determined by this program: what they print and whether they write      *)
(* their output file is a nondeterministic choice.                         *)
(***************************************************************************)
EXTENDS Integers, Sequences, FiniteSets, TLC

\* ------------------------------------------------------------------ bounds
MaxNames   == 4      \* candidate random names tempfile can draw per suffix
MaxRows    == 2      \* largest number of rows of X / entries of y
MaxSweep   == 2      \* longest sweep Cs
MaxClock   == 2      \* cap of the time.clock() counter
MaxCalls   == 3      \* direct fit / predict calls a caller makes

\* ------------------------------------------------------- program constants
CostScale  == 100    \* C = self.C * 100. * len(X)
RuntimeLineFromEnd == 4   \* self.output_[-4]
RuntimeField == 1    \* .split(":")[1]

MultiSVMs == {"m1", "m2"}          \* MultiSVM() instances
InProcess == {"ssvm"}              \* OneSlackSSVM(CrammerSingerSVMModel())
Adapters  == MultiSVMs \cup InProcess

\* ------------------------------------------------------------- file system
Suffixes == {".svm", ".svm_dat", ".out"}
Paths    == [name : 1..MaxNames, suffix : Suffixes]
Absent   == [kind |-> "absent", labels |-> <<>>]

\* caller data: X is represented by its number of rows, y by its labels.
\* Classes are the K valid 0-based labels; the learn and classify tools
\* use them 1-based.  BadLabel lies outside the class range.
Classes  == {0, 1}
ToolClasses == {c + 1 : c \in Classes}
BadLabel == {2}
Labels   == Classes \cup BadLabel
LabelVecs == UNION {[1..n -> Labels] : n \in 1..MaxRows}
ValidVecs == UNION {[1..n -> Classes] : n \in 1..MaxRows}
CValues  == {1, 2}
Sweeps   == UNION {[1..n -> CValues] : n \in 0..MaxSweep}

\* ------------------------------------------- learn tool output (as text)
\* A text is kept as read().split("\n") gives it: a non-empty sequence of
\* lines, each line as split(":") gives it: a non-empty sequence of fields.
FloatStr == <<"0", "1">>           \* the numeric texts, FloatStr[k] reads as k-1
Filler   == <<"txt">>
LineChoices == {<<"txt">>, <<"lbl", "txt">>}
                 \cup {<<"Runtime in cpu-seconds", FloatStr[k]>> : k \in DOMAIN FloatStr}
\* no text at all (binary missing), or a banner with some line at [-4]
Outputs == {<< <<"">> >>}
             \cup {<<Filler, ln, Filler, Filler, <<"">> >> : ln \in LineChoices}

VARIABLES
  mainpc,                             \* position of main()
  C, model_file, output_, runtime_,   \* adapter attributes (<<>> = attribute not set)
  fs,                                 \* path -> file content
  pc,                                 \* position of the Python thread inside a call
  self, X, y,                         \* receiver and data of the running call
  train_data_file, prediction_file,   \* locals of fit / _predict (<<>> = unbound)
  learn, classify,                    \* child processes
  result,                             \* outcome of the last fit / predict call
  ev, svm, Cs, i, accuracies, times, start,   \* eval_on_data frame
  clock,                              \* time.clock()
  calls,                              \* direct calls made so far (SpecApi)
  entry, fitlog, prov, accProv        \* history variables

attrs   == <<C, model_file, output_, runtime_>>
frame   == <<self, X, y, train_data_file, prediction_file>>
procs   == <<learn, classify>>
evalv   == <<ev, svm, Cs, i, accuracies, times, start>>
hist    == <<entry, fitlog, prov, accProv>>
vars    == <<mainpc, calls, attrs, fs, pc, frame, procs, result, evalv, clock, hist>>

NoProc   == [st |-> "none", out |-> << <<"">> >>]
NoResult == [op |-> "none", status |-> "none", value |-> <<>>, raw |-> <<>>]
NoFit    == [svm |-> "-", C |-> 0, t0 |-> 0, t1 |-> 0, out |-> <<>>, runtime |-> <<>>]
NoEntry  == [model_file |-> <<>>, output_ |-> <<>>, runtime_ |-> <<>>]

\* the adapters are constructed with C = 1. (line 49), nothing has run yet
Constructed ==
  /\ mainpc = 1 /\ calls = 0
  /\ C = [a \in Adapters |-> 1]
  /\ model_file = [a \in MultiSVMs |-> <<>>]
  /\ output_ = [a \in MultiSVMs |-> <<>>]
  /\ runtime_ = [a \in MultiSVMs |-> <<>>]
  /\ fs = [p \in Paths |-> Absent]
  /\ pc = "idle"
  /\ self = "m1"
  /\ train_data_file = <<>> /\ prediction_file = <<>>
  /\ learn = NoProc /\ classify = NoProc
  /\ result = NoResult
  /\ ev = "off" /\ svm = "m1" /\ i = 0
  /\ accuracies = <<>> /\ times = <<>> /\ start = 0
  /\ clock = 0
  /\ entry = NoEntry
  /\ fitlog = NoFit /\ prov = <<>> /\ accProv = <<>>

\* lines 112-117: main() builds the sweep and loads a dataset; the loader's
\* datasets have one label per row and labels that are class indices
Init ==
  /\ Constructed
  /\ y \in ValidVecs /\ X = Len(y)
  /\ Cs \in Sweeps

\* a caller of the adapter alone: no sweep, and data of any kind, also
\* with a wrong number of labels or a label outside the class range
InitApi ==
  /\ Constructed
  /\ X \in 1..MaxRows /\ y \in LabelVecs
  /\ Cs = <<>>

\* ---------------------------------------------------------------- helpers
\* the paths some variable of the program still holds
SeqSet(s) == {s[k] : k \in DOMAIN s}
Referenced ==
  UNION {SeqSet(model_file[a]) : a \in MultiSVMs}
    \cup SeqSet(train_data_file) \cup SeqSet(prediction_file)

\* tempfile.mktemp(suffix): a random name whose file does not exist now;
\* this is the only thing mktemp checks, and it creates nothing.  Names
\* that occur nowhere in the state are interchangeable, so of those only
\* the least is drawn; every absent path the program still holds is drawn.
MktempNames(suffix) ==
  LET free == {p \in Paths : p.suffix = suffix /\ fs[p].kind = "absent"}
      new  == free \ Referenced
  IN  (free \cap Referenced) \cup {p \in new : \A q \in new : p.name <= q.name}

\* an exception leaves the running call; eval_on_data and main() catch
\* nothing, so inside a sweep it ends the sweep and the program
\* raw is what _predict had loaded by then (<<>>: nothing)
RaiseAfter(op, raw) ==
  /\ pc' = "idle"
  /\ result' = [op |-> op, status |-> "raised", value |-> <<>>, raw |-> raw]
  /\ ev' = IF ev = "run" THEN "raised" ELSE ev

Raise(op) == RaiseAfter(op, <<>>)

\* the call returns to eval_on_data, or to the caller of the adapter
Return(op, val, raw) ==
  /\ pc' = IF ev = "run" THEN (IF op = "fit" THEN "eval_91" ELSE "eval_95") ELSE "idle"
  /\ result' = [op |-> op, status |-> "returned", value |-> val, raw |-> raw]
  /\ ev' = ev

\* a parse that falls back to 0 seconds where the real one raises
ParseRuntime_default(out) ==
  IF Len(out) >= RuntimeLineFromEnd
       /\ Len(out[Len(out) - RuntimeLineFromEnd + 1]) >= RuntimeField + 1
       /\ \E k \in DOMAIN FloatStr :
            FloatStr[k] = out[Len(out) - RuntimeLineFromEnd + 1][RuntimeField + 1]
  THEN [ok |-> TRUE,
        val |-> (CHOOSE k \in DOMAIN FloatStr :
                   FloatStr[k] = out[Len(out) - RuntimeLineFromEnd + 1][RuntimeField + 1]) - 1]
  ELSE [ok |-> TRUE, val |-> 0]

\* float(self.output_[-4].split(":")[1])
ParseRuntime(out) ==
  IF Len(out) < RuntimeLineFromEnd
  THEN [ok |-> FALSE, val |-> 0]                         \* IndexError
  ELSE LET line == out[Len(out) - RuntimeLineFromEnd + 1] IN
       IF Len(line) < RuntimeField + 1
       THEN [ok |-> FALSE, val |-> 0]                    \* IndexError
       ELSE IF \E k \in DOMAIN FloatStr : FloatStr[k] = line[RuntimeField + 1]
            THEN [ok |-> TRUE,
                  val |-> (CHOOSE k \in DOMAIN FloatStr :
                             FloatStr[k] = line[RuntimeField + 1]) - 1]
            ELSE [ok |-> FALSE, val |-> 0]               \* ValueError

\* ------------------------------------------------------------ MultiSVM.fit
\* svm.fit(X, y) called directly
CallFit(a) ==
  /\ pc = "idle"
  /\ calls < MaxCalls
  /\ calls' = calls + 1
  /\ self' = a
  /\ train_data_file' = <<>> /\ prediction_file' = <<>>
  /\ pc' = "fit_52"
  /\ result' = NoResult
  /\ UNCHANGED <<mainpc, attrs, fs, X, y, procs, evalv, clock, hist>>

\* dump_svmlight_file(X, labels, f, zero_based=False): one line per row,
\* the label first
DumpContent(labels) == [kind |-> "dat", labels |-> labels]

\* y + 1 (numpy, elementwise)
ShiftUp(lab) == [k \in DOMAIN lab |-> lab[k] + 1]

\* lines 52-53: both names are drawn before anything is written.  mktemp
\* raises when it finds no unused name; line 52 has then already run if
\* the failure is at line 53
Fit_mktemp ==
  /\ pc = "fit_52"
  /\ entry' = [model_file |-> model_file[self], output_ |-> output_[self],
               runtime_ |-> runtime_[self]]
  /\ IF MktempNames(".svm") = {}
     THEN /\ Raise("fit")
          /\ UNCHANGED <<attrs, train_data_file, fitlog>>
     ELSE \E m \in MktempNames(".svm") :
            /\ model_file' = [model_file EXCEPT ![self] = <<m>>]
            /\ IF MktempNames(".svm_dat") = {}
               THEN /\ Raise("fit")
                    /\ UNCHANGED <<train_data_file, fitlog>>
               ELSE /\ \E t \in MktempNames(".svm_dat") : train_data_file' = <<t>>
                    /\ fitlog' = [NoFit EXCEPT !.svm = self, !.t0 = clock]
                    /\ pc' = "fit_54"
                    /\ UNCHANGED <<result, ev>>
            /\ UNCHANGED <<C, output_, runtime_>>
  /\ UNCHANGED <<mainpc, calls, fs, self, X, y, prediction_file, procs,
                 svm, Cs, i, accuracies, times, start, clock, prov, accProv>>

\* line 54: sklearn refuses X and labels of different length
Fit_dump ==
  /\ pc = "fit_54"
  /\ IF X # Len(y)
     THEN /\ Raise("fit")                      \* ValueError from dump_svmlight_file
          /\ UNCHANGED fs
     ELSE /\ fs' = [fs EXCEPT ![train_data_file[1]] = DumpContent(ShiftUp(y))]
          /\ pc' = "fit_55"
          /\ UNCHANGED <<result, ev>>
  /\ UNCHANGED <<mainpc, calls, attrs, frame, procs, svm, Cs, i, accuracies, times, start,
                 clock, hist>>

\* line 55
LearnCost(a, n) == C[a] * CostScale * n

\* lines 55-58: os.popen starts svm_multiclass_learn on whatever was dumped
Fit_popen ==
  /\ pc = "fit_55"
  /\ learn' = [NoProc EXCEPT !.st = "running"]
  /\ fitlog' = [fitlog EXCEPT !.C = LearnCost(self, X)]
  /\ pc' = "fit_59"
  /\ UNCHANGED <<mainpc, calls, attrs, fs, frame, classify, result, evalv, clock,
                 entry, prov, accProv>>

\* svm_multiclass_learn: prints some text and may or may not write the
\* model; a model it writes is trained on the labels of the data file
ModelContent(trainfile) == [kind |-> "model", labels |-> fs[trainfile].labels]

LearnTool ==
  /\ learn.st = "running"
  /\ \E o \in Outputs, w \in BOOLEAN :
       /\ learn' = [st |-> "exited", out |-> o]
       /\ fs' = IF w THEN [fs EXCEPT ![model_file[self][1]] =
                             ModelContent(train_data_file[1])]
                ELSE fs
  /\ UNCHANGED <<mainpc, calls, attrs, pc, frame, classify, result, evalv, clock, hist>>

\* a read that does not wait for the end of the child's output
ReadReturns_nowait(p) == p.st \in {"running", "exited"}

\* svmstruct_process.read() returns at end of file, when the child is gone
ReadReturns(p) == p.st = "exited"

\* lines 59-60
Fit_read ==
  /\ pc = "fit_59"
  /\ ReadReturns(learn)
  /\ output_' = [output_ EXCEPT ![self] = learn.out]
  /\ learn' = IF learn.st = "exited" THEN NoProc ELSE learn   \* the pipe is dropped
  /\ LET r == ParseRuntime(learn.out) IN
       IF r.ok
       THEN /\ runtime_' = [runtime_ EXCEPT ![self] = <<r.val>>]
            /\ fitlog' = [fitlog EXCEPT !.t1 = clock, !.out = learn.out,
                                        !.runtime = <<r.val>>]
            /\ Return("fit", <<>>, <<>>)
       ELSE /\ Raise("fit")
            /\ fitlog' = [fitlog EXCEPT !.out = learn.out]
            /\ UNCHANGED runtime_
  /\ UNCHANGED <<mainpc, calls, C, model_file, fs, frame, classify,
                 svm, Cs, i, accuracies, times, start, clock, entry, prov, accProv>>

\* --------------------------------------- MultiSVM._predict / predict
\* svm.predict(X) called directly
CallPredict(a) ==
  /\ pc = "idle"
  /\ calls < MaxCalls
  /\ calls' = calls + 1
  /\ self' = a
  /\ train_data_file' = <<>> /\ prediction_file' = <<>>
  /\ pc' = "pred_63"
  /\ result' = NoResult
  /\ UNCHANGED <<mainpc, attrs, fs, X, y, procs, evalv, clock, hist>>

\* np.ones(len(X))
Ones(n) == [k \in 1..n |-> 1]

\* lines 63-67
Pred_dump ==
  /\ pc = "pred_63"
  /\ IF MktempNames(".svm_dat") = {}
     THEN /\ Raise("predict")
          /\ UNCHANGED <<fs, train_data_file>>
     ELSE \E t \in MktempNames(".svm_dat") :
            /\ train_data_file' = <<t>>
            /\ fs' = [fs EXCEPT ![t] = DumpContent(Ones(X))]
            /\ pc' = "pred_69"
            /\ UNCHANGED <<result, ev>>
  /\ UNCHANGED <<mainpc, calls, attrs, self, X, y, prediction_file, procs,
                 svm, Cs, i, accuracies, times, start, clock, hist>>

\* lines 69-71: os.system starts svm_multiclass_classify
Pred_system ==
  /\ pc = "pred_69"
  /\ IF MktempNames(".out") = {} \/ model_file[self] = <<>>
     THEN /\ Raise("predict")                   \* no name left / AttributeError
          /\ UNCHANGED <<prediction_file, classify>>
     ELSE /\ \E o \in MktempNames(".out") : prediction_file' = <<o>>
          /\ classify' = [NoProc EXCEPT !.st = "running"]
          /\ pc' = "pred_72"
          /\ UNCHANGED <<result, ev>>
  /\ UNCHANGED <<mainpc, calls, attrs, fs, self, X, y, train_data_file, learn,
                 svm, Cs, i, accuracies, times, start, clock, hist>>

\* svm_multiclass_classify: with a model to read it writes one row per
\* row of its input; it may also fail and write nothing.  The row count is
\* kept in the file, as a column of placeholders: the labels the tool chose
\* are seen by nobody before np.loadtxt and are drawn there.
TableContent(n) == [kind |-> "out", labels |-> [k \in 1..n |-> 0]]

ClassifyTool ==
  /\ classify.st = "running"
  /\ classify' = [classify EXCEPT !.st = "exited"]
  /\ \E w \in BOOLEAN :
       fs' = IF w /\ fs[model_file[self][1]].kind = "model"
             THEN [fs EXCEPT ![prediction_file[1]] =
                     TableContent(Len(fs[train_data_file[1]].labels))]
             ELSE fs
  /\ UNCHANGED <<mainpc, calls, attrs, pc, frame, learn, result, evalv, clock, hist>>

\* os.system returns when the child has exited
SystemReturns(p) == p.st = "exited"

\* column 0 of the tables the classify tool can have written: 1-based labels
Tables(n) == [1..n -> ToolClasses]

\* np.loadtxt: a table of one row comes back as a 1-d array
LoadTxt(rows) == [ndim |-> IF Len(rows) = 1 THEN 1 ELSE 2, rows |-> rows]

\* [:, 0] takes two indices: an IndexError on a 1-d array
CanTakeColumn(arr) == arr.ndim = 2

\* self._predict(X)[:, 0] - 1
Column0Minus1(arr) == [k \in DOMAIN arr.rows |-> arr.rows[k] - 1]

\* lines 72 and 75
Pred_load ==
  /\ pc = "pred_72"
  /\ SystemReturns(classify)
  /\ classify' = IF classify.st = "exited" THEN NoProc ELSE classify
  /\ IF fs[prediction_file[1]].kind # "out"
     THEN Raise("predict")                       \* IOError: no such file
     ELSE \E col0 \in Tables(Len(fs[prediction_file[1]].labels)) :
            LET arr == LoadTxt(col0) IN
            IF CanTakeColumn(arr)
            THEN Return("predict", Column0Minus1(arr), col0)
            ELSE RaiseAfter("predict", col0)     \* IndexError
  /\ UNCHANGED <<mainpc, calls, attrs, fs, frame, learn,
                 svm, Cs, i, accuracies, times, start, clock, hist>>

\* ------------------------------------ OneSlackSSVM (in-process adapter)
\* the clock is this process's CPU time: it advances while the in-process
\* solver works, not while the thread waits for a child process
Ticks == {d \in 0..1 : clock + d <= MaxClock}

InProcFit ==
  /\ pc = "ip_fit"
  /\ IF X # Len(y)
     THEN /\ Raise("fit")                        \* data error: fatal
          /\ UNCHANGED <<clock, fitlog>>
     ELSE /\ \E d \in Ticks :
               /\ clock' = clock + d
               /\ fitlog' = [NoFit EXCEPT !.svm = self, !.C = C[self], !.t0 = clock,
                                         !.t1 = clock + d]
          /\ Return("fit", <<>>, <<>>)
  /\ UNCHANGED <<mainpc, calls, attrs, fs, frame, procs, svm, Cs, i, accuracies, times, start,
                 entry, prov, accProv>>

InProcPredict ==
  /\ pc = "ip_predict"
  /\ \E d \in Ticks : clock' = clock + d
  /\ \E pred \in [1..X -> Classes] : Return("predict", pred, <<>>)
  /\ UNCHANGED <<mainpc, calls, attrs, fs, frame, procs, svm, Cs, i, accuracies, times, start, hist>>

\* ------------------------------------------------------------ eval_on_data
\* eval_on_data(X, y, svm, Cs) is entered (line 86)
CallEval(a) ==
  /\ pc = "idle"
  /\ ev' = "run" /\ svm' = a
  /\ i' = 0 /\ accuracies' = <<>> /\ times' = <<>>
  /\ prov' = <<>> /\ accProv' = <<>>
  /\ pc' = "eval_87"
  /\ result' = NoResult
  /\ UNCHANGED <<calls, attrs, fs, frame, procs, Cs, start, clock, entry, fitlog>>

FitEntry(a) == IF a \in MultiSVMs THEN "fit_52" ELSE "ip_fit"
PredictEntry(a) == IF a \in MultiSVMs THEN "pred_63" ELSE "ip_predict"

\* a loop that keeps using the first sweep value
SweepPoint_first(cs, k) == cs[1]

\* the value `for C in Cs` binds in iteration k (1-based)
SweepPoint(cs, k) == cs[k]

\* lines 87-90: next sweep value, svm.C = C, start = clock(), svm.fit(X, y)
Eval_loop ==
  /\ pc = "eval_87"
  /\ i < Len(Cs)
  /\ i' = i + 1
  /\ C' = [C EXCEPT ![svm] = SweepPoint(Cs, i + 1)]
  /\ start' = clock
  /\ self' = svm
  /\ train_data_file' = <<>> /\ prediction_file' = <<>>
  /\ pc' = FitEntry(svm)
  /\ UNCHANGED <<mainpc, calls, model_file, output_, runtime_, fs, X, y, procs, result,
                 ev, svm, Cs, accuracies, times, clock, hist>>

\* hasattr(svm, "runtime_")
HasRuntime(a) == a \in MultiSVMs /\ runtime_[a] # <<>>

\* a harness that always measures, whatever the adapter reports
RecordedTime_wallclock(a, now, st) == now - st

\* lines 91-94
RecordedTime(a, now, st) == IF HasRuntime(a) THEN runtime_[a][1] ELSE now - st

\* lines 91-95: record the time, then svm.predict(X)
Eval_time ==
  /\ pc = "eval_91"
  /\ times' = Append(times, RecordedTime(svm, clock, start))
  /\ prov' = Append(prov, fitlog)
  /\ self' = svm
  /\ train_data_file' = <<>> /\ prediction_file' = <<>>
  /\ pc' = PredictEntry(svm)
  /\ UNCHANGED <<mainpc, calls, attrs, fs, X, y, procs, result, ev, svm, Cs, i, accuracies, start,
                 clock, entry, fitlog, accProv>>

\* sklearn accuracy_score: <<number of matching labels, number of labels>>
AccuracyScore(yt, yp) ==
  <<Cardinality({k \in DOMAIN yt : yt[k] = yp[k]}), Len(yt)>>

\* line 95
Eval_acc ==
  /\ pc = "eval_95"
  /\ IF Len(result.value) # Len(y)
     THEN /\ pc' = "idle" /\ ev' = "raised"      \* ValueError from accuracy_score
          /\ UNCHANGED <<accuracies, accProv>>
     ELSE /\ accuracies' = Append(accuracies, AccuracyScore(y, result.value))
          /\ accProv' = Append(accProv, fitlog)
          /\ pc' = "eval_87"
          /\ ev' = ev
  /\ UNCHANGED <<mainpc, calls, attrs, fs, frame, procs, result, svm, Cs, i, times, start,
                 clock, entry, fitlog, prov>>

\* line 96
Eval_return ==
  /\ pc = "eval_87"
  /\ i = Len(Cs)
  /\ ev' = "returned"
  /\ pc' = "idle"
  /\ UNCHANGED <<mainpc, calls, attrs, fs, frame, procs, result, svm, Cs, i, accuracies, times,
                 start, clock, hist>>

\* -------------------------------------------------------------------- main
\* lines 119-120: eval_on_data for the in-process model, then for the
\* MultiSVM instance, on the dataset loaded first
MainSteps == <<"ssvm", "m1">>

Main_eval ==
  /\ mainpc \in DOMAIN MainSteps
  /\ ev # "raised"                               \* an exception ended the program
  /\ CallEval(MainSteps[mainpc])
  /\ mainpc' = mainpc + 1

\* ------------------------------------------------------------------- next
Next ==
  \/ Main_eval
  \/ Fit_mktemp \/ Fit_dump \/ Fit_popen \/ LearnTool \/ Fit_read
  \/ Pred_dump \/ Pred_system \/ ClassifyTool \/ Pred_load
  \/ InProcFit \/ InProcPredict
  \/ Eval_loop \/ Eval_time \/ Eval_acc \/ Eval_return

Spec == Init /\ [][Next]_vars

\* the adapter used directly: any sequence of fit and predict calls on the
\* MultiSVM instances, by a caller that goes on after an exception
NextApi ==
  \/ \E a \in MultiSVMs : CallFit(a)
  \/ \E a \in MultiSVMs : CallPredict(a)
  \/ Fit_mktemp \/ Fit_dump \/ Fit_popen \/ LearnTool \/ Fit_read
  \/ Pred_dump \/ Pred_system \/ ClassifyTool \/ Pred_load

SpecApi == InitApi /\ [][NextApi]_vars

\* ================================================================ claims

\* the cost svm.fit runs with when the adapter's C is c
FitCost(a, c) == IF a \in MultiSVMs THEN c * CostScale * X ELSE c

\* C1: eval_on_data keeps accuracies and times in lockstep with the sweep.
\* At the loop head after k completed iterations both lists have length k;
\* at return both have length Len(Cs); entry j of times and entry j of
\* accuracies come from one and the same fit run, made on the sweep's
\* adapter with its C set to Cs[j].
C1_Lockstep ==
  /\ (ev = "run" /\ pc = "eval_87") =>
        Len(accuracies) = i /\ Len(times) = i
  /\ ev = "returned" =>
        Len(accuracies) = Len(Cs) /\ Len(times) = Len(Cs)
  /\ ev \in {"run", "returned"} =>
        /\ Len(prov) = Len(times) /\ Len(accProv) = Len(accuracies)
        /\ Len(times) <= Len(Cs)
        /\ \A j \in DOMAIN times :
             prov[j].svm = svm /\ prov[j].C = FitCost(svm, Cs[j])
        /\ \A j \in DOMAIN accuracies : accProv[j] = prov[j]

\* a MultiSVM sweep over two different values has returned
C1_Witness ==
  /\ ev = "returned" /\ svm = "m1"
  /\ Len(Cs) = 2 /\ Cs[1] # Cs[2]
  /\ Len(times) = 2 /\ Len(accuracies) = 2

\* the learn tool's text has a <label>:<float> field at the parsed position
HasRuntimeLine(out) ==
  /\ Len(out) >= 4
  /\ Len(out[Len(out) - 3]) >= 2
  /\ out[Len(out) - 3][2] \in SeqSet(FloatStr)

\* C2: when the learn tool's output lacks the runtime line (also when it is
\* empty), MultiSVM.fit raises, the sweep ends without a time for that
\* point, and every time a MultiSVM sweep did record is the number read
\* from a runtime line, never a default.
C2_ParseFailureRaises ==
  /\ (fitlog.svm \in MultiSVMs /\ fitlog.out # <<>> /\ ~HasRuntimeLine(fitlog.out)) =>
        /\ result.op = "fit" /\ result.status = "raised"
        /\ ev = "raised"
        /\ Len(times) < i
        /\ runtime_[fitlog.svm] = entry.runtime_
  /\ (ev \in {"run", "returned"} /\ svm \in MultiSVMs) =>
        \A j \in DOMAIN times :
          /\ HasRuntimeLine(prov[j].out)
          /\ FloatStr[times[j] + 1] = prov[j].out[Len(prov[j].out) - 3][2]

\* the learn binary printed nothing and the sweep ended in fit's exception
C2_Witness ==
  /\ svm = "m1" /\ ev = "raised"
  /\ result.op = "fit" /\ result.status = "raised"
  /\ fitlog.out = << <<"">> >>

\* fit has set all of the adapter's attributes from a well-formed output
Fitted(a) ==
  /\ model_file[a] # <<>> /\ runtime_[a] # <<>>
  /\ output_[a] # <<>> /\ HasRuntimeLine(output_[a])

\* C3: a path a call generates is never a path an earlier call generated
\* and an adapter still uses: two fitted MultiSVM instances never hold the
\* same model path.
C3_ExchangePathsDistinct ==
  \A a, b \in MultiSVMs :
    (a # b /\ Fitted(a) /\ Fitted(b)) => model_file[a] # model_file[b]

\* C4: the time recorded for a sweep point is the runtime_ that point's
\* own fit set, when the adapter is one that sets runtime_, and otherwise
\* the clock at that fit's return minus the clock at that fit's entry.
C4_TimeSource ==
  ev \in {"run", "returned"} =>
    /\ Len(prov) = Len(times)
    /\ \A j \in DOMAIN times :
         /\ prov[j].runtime # <<>> <=> svm \in MultiSVMs
         /\ IF prov[j].runtime # <<>>
            THEN times[j] = prov[j].runtime[1]
            ELSE times[j] = prov[j].t1 - prov[j].t0

\* the in-process model's sweep measured one tick for each of two points,
\* the second after the clock had already advanced
C4_Witness ==
  /\ ev = "returned" /\ svm = "ssvm"
  /\ times = <<1, 1>>

\* C5: after a fit that returned, when the classify tool gives every row
\* the 1-based label the model was trained with for that row, predict
\* returns the caller's 0-based labels.
C5_LabelShiftInvariance ==
  (/\ result.op = "predict" /\ result.status # "none"
   /\ fitlog.svm = self /\ fitlog.runtime # <<>>
   /\ model_file[self] # <<>>
   /\ fs[model_file[self][1]].kind = "model"
   /\ fs[model_file[self][1]].labels = ShiftUp(y)
   /\ result.raw = ShiftUp(y))
    => (result.status = "returned" /\ result.value = y)

\* C6: after fit(X, y) on valid data, with a classify tool that wrote one
\* row per sample, predict(X) returns X labels, each a class in [0, K).
C6_PredictShape ==
  (/\ result.op = "predict" /\ result.status # "none"
   /\ fitlog.svm = self /\ fitlog.runtime # <<>>
   /\ X = Len(y) /\ \A k \in DOMAIN y : y[k] \in Classes
   /\ Len(result.raw) = X)
    => /\ result.status = "returned"
       /\ Len(result.value) = X
       /\ \A k \in DOMAIN result.value : result.value[k] \in Classes

\* C7: once a MultiSVM sweep has returned, the only exchange file left is
\* the adapter's current model file.
C7_NoLeftoverFiles ==
  (ev = "returned" /\ svm \in MultiSVMs) =>
     \A p \in Paths : fs[p].kind # "absent" => model_file[svm] = <<p>>

\* C8: the learn binary is never started on data with a wrong number of
\* labels or with a label outside the class range.
C8_DataCheckedBeforeSpawn ==
  learn.st = "running" =>
     (X = Len(y) /\ \A k \in DOMAIN y : y[k] \in Classes)

\* C9: the sweep is strictly sequential.  A child process exists only
\* while the thread waits for it; never two at once; the classify process
\* of a point exists only after that point's fit has returned with the
\* learn output read; the learn process of a point exists only after the
\* previous point's prediction has been loaded and scored.
C9_Sequential ==
  /\ ~(learn.st # "none" /\ classify.st # "none")
  /\ learn.st # "none" => pc = "fit_59"
  /\ classify.st # "none" => pc = "pred_72"
  /\ (classify.st # "none" /\ ev = "run") =>
        /\ result.op = "fit" /\ result.status = "returned"
        /\ output_[svm] = fitlog.out
        /\ Len(times) = i /\ Len(accuracies) = i - 1
  /\ (learn.st # "none" /\ ev = "run") =>
        /\ Len(times) = i - 1 /\ Len(accuracies) = i - 1

\* the classify process of the second sweep point is running
C9_Witness ==
  /\ ev = "run" /\ svm = "m1" /\ i = 2
  /\ classify.st = "running"

\* C10: a fit that raised because the learn tool's output had no runtime
\* line leaves model_file, output_ and runtime_ as they were when it was
\* called.
C10_FailedFitKeepsState ==
  (/\ pc = "idle" /\ result.op = "fit" /\ result.status = "raised"
   /\ fitlog.svm = self /\ fitlog.out # <<>>) =>
     /\ model_file[self] = entry.model_file
     /\ output_[self] = entry.output_
     /\ runtime_[self] = entry.runtime_

====
